---- MODULE Spec2Model ----
(***************************************************************************)
(* The loopy notebook (src/unnamed/part_000) and the PyOpenCL notebook     *)
(* (src/03-opencl/1-4-ipython-magic.ipynb) as state machines.              *)
(*                                                                         *)
(* The notebooks build a kernel description, derive transformed            *)
(* descriptions from it, and run them; each run prints the OpenCL kernel   *)
(* that was generated.  The printed kernels are modelled statement by      *)
(* statement and executed by one execution unit at a time (Spec), by a     *)
(* whole launch (SpecTiled) and by the work items of one group             *)
(* (SpecStaged).  The library that schedules and generates the code is     *)
(* not part of the repository: only its recorded results are modelled.     *)
(***************************************************************************)
EXTENDS Integers, Sequences, FiniteSets, TLC

VARIABLES
    pc,      \* the notebook statement to execute next
    n,       \* the array extent parameter n
    knl,     \* Python variable knl: a kernel description, or Undef
    tknl,    \* Python variable tknl
    sknl,    \* Python variable sknl
    out,     \* what the last run printed: the generated kernel and the warnings
    unit,    \* the execution unit running the generated kernel
    mem,     \* the memory the work items share: the buffers of sum_vector,
             \* the stores to result of a launch, the accesses to u_fetch
    wi       \* the work items of a launch

vars == <<pc, n, knl, tknl, sknl, out, unit, mem, wi>>

(***************************************************************************)
(* Bounds of the model.                                                    *)
(***************************************************************************)
MaxN == 17          \* n ranges over 1..MaxN (the notebook runs n = 1000)
MaxGid == 1         \* group ids range over 0..MaxGid in each dimension
MaxFactor == 3      \* split factors 1..MaxFactor are tried besides TileSize
MaxSumN == 2        \* sum_vector: global sizes 1..MaxSumN
MaxVal == 1         \* sum_vector: buffer values range over 0..MaxVal
MaxLid == 1         \* staged group: followed work items have lid coordinates 0..MaxLid or 15

(***************************************************************************)
(* Program constants.                                                      *)
(***************************************************************************)
TileSize == 16      \* the split factor of both split_iname calls

Undef == [kind |-> "undef"]
NoVars == [x \in {} |-> 0]

(***************************************************************************)
(* The generated kernels.  A kernel is its required work-group size, its   *)
(* __local declarations and its body, a sequence of statements:            *)
(*   for     loop header: var runs from lo to hi, exit is the statement    *)
(*           after the loop                                                *)
(*   endfor  end of the loop body: ++var, head is the loop's header        *)
(*   if      guard: cond names the condition, exit is the statement after  *)
(*           the guarded statement                                         *)
(*   store   arr[idx] = expression over the loads; insn is the instruction *)
(*           of the kernel description the statement implements            *)
(*   barrier barrier(CLK_LOCAL_MEM_FENCE)                                  *)
(* Conditions and index expressions are named here and evaluated by Cond   *)
(* and Index.                                                              *)
(***************************************************************************)
Load(arr, idx) == [arr |-> arr, idx |-> idx]

\* for (int j = 0; j <= -1 + n; ++j) for (int i = 0; i <= -1 + n; ++i) result[..] = ..
SequentialKernel(N) ==
    [ wgsize |-> <<1, 1, 1>>,
      locals |-> <<>>,
      body |-> <<
        [kind |-> "for", var |-> "j", lo |-> 0, hi |-> -1 + N, exit |-> 6],
        [kind |-> "for", var |-> "i", lo |-> 0, hi |-> -1 + N, exit |-> 5],
        [kind |-> "store", insn |-> "insn", arr |-> "result", idx |-> "seq.result",
         loads |-> << Load("u", "seq.c"), Load("u", "seq.c"), Load("u", "seq.c"),
                      Load("u", "seq.ip"), Load("u", "seq.im"),
                      Load("u", "seq.jp"), Load("u", "seq.jm") >>],
        [kind |-> "endfor", var |-> "i", head |-> 2],
        [kind |-> "endfor", var |-> "j", head |-> 1] >> ]

\* A code generator that kept the loops of the tagged inames.
TaggedKernelLoops(N) == SequentialKernel(N)

\* result[(1 + n) * (gid(0) + 1) + gid(1) + 1] = ..
TaggedKernel(N) ==
    [ wgsize |-> <<1, 1, 1>>,
      locals |-> <<>>,
      body |-> <<
        [kind |-> "store", insn |-> "insn", arr |-> "result", idx |-> "tag.result",
         loads |-> << Load("u", "tag.c"), Load("u", "tag.c"), Load("u", "tag.c"),
                      Load("u", "tag.ip"), Load("u", "tag.im"),
                      Load("u", "tag.jp"), Load("u", "tag.jm") >>] >> ]

\* A code generator that left the guard of the split inames out.
TiledKernelUnguarded(N) ==
    [ wgsize |-> <<16, 16, 1>>,
      locals |-> <<>>,
      body |-> <<
        [kind |-> "store", insn |-> "insn", arr |-> "result", idx |-> "tile.result",
         loads |-> << Load("u", "tile.c"), Load("u", "tile.c"), Load("u", "tile.c"),
                      Load("u", "tile.ip"), Load("u", "tile.im"),
                      Load("u", "tile.jp"), Load("u", "tile.jm") >>] >> ]

\* if (guard) result[..] = ..
TiledKernel(N) ==
    [ wgsize |-> <<16, 16, 1>>,
      locals |-> <<>>,
      body |-> <<
        [kind |-> "if", cond |-> "tile.guard", exit |-> 3],
        [kind |-> "store", insn |-> "insn", arr |-> "result", idx |-> "tile.result",
         loads |-> << Load("u", "tile.c"), Load("u", "tile.c"), Load("u", "tile.c"),
                      Load("u", "tile.ip"), Load("u", "tile.im"),
                      Load("u", "tile.jp"), Load("u", "tile.jm") >>] >> ]

\* A code generator that emitted the barrier after the compute statement.
StagedKernelLateBarrier(N) ==
    [ wgsize |-> <<16, 16, 1>>,
      locals |-> << [name |-> "u_fetch", size |-> 18 * 18] >>,
      body |-> <<
        [kind |-> "for", var |-> "u_dim_1_outer", lo |-> 0, hi |-> 1, exit |-> 8],
        [kind |-> "if", cond |-> "stage.fetch1", exit |-> 7],
        [kind |-> "for", var |-> "u_dim_0_outer", lo |-> 0, hi |-> 1, exit |-> 7],
        [kind |-> "if", cond |-> "stage.fetch0", exit |-> 6],
        [kind |-> "store", insn |-> "u_fetch_rule", arr |-> "u_fetch",
         idx |-> "stage.u_fetch", loads |-> << Load("u", "stage.u") >>],
        [kind |-> "endfor", var |-> "u_dim_0_outer", head |-> 3],
        [kind |-> "endfor", var |-> "u_dim_1_outer", head |-> 1],
        [kind |-> "if", cond |-> "stage.guard", exit |-> 10],
        [kind |-> "store", insn |-> "insn", arr |-> "result", idx |-> "stage.result",
         loads |-> << Load("u_fetch", "stage.c"), Load("u_fetch", "stage.c"),
                      Load("u_fetch", "stage.c"), Load("u_fetch", "stage.ip"),
                      Load("u_fetch", "stage.im"), Load("u_fetch", "stage.jp"),
                      Load("u_fetch", "stage.jm") >>],
        [kind |-> "barrier", fence |-> "CLK_LOCAL_MEM_FENCE"] >> ]

\* A code generator that emitted no barrier between the fetch and the statement.
StagedKernelNoBarrier(N) ==
    [ wgsize |-> <<16, 16, 1>>,
      locals |-> << [name |-> "u_fetch", size |-> 18 * 18] >>,
      body |-> <<
        [kind |-> "for", var |-> "u_dim_1_outer", lo |-> 0, hi |-> 1, exit |-> 8],
        [kind |-> "if", cond |-> "stage.fetch1", exit |-> 7],
        [kind |-> "for", var |-> "u_dim_0_outer", lo |-> 0, hi |-> 1, exit |-> 7],
        [kind |-> "if", cond |-> "stage.fetch0", exit |-> 6],
        [kind |-> "store", insn |-> "u_fetch_rule", arr |-> "u_fetch",
         idx |-> "stage.u_fetch", loads |-> << Load("u", "stage.u") >>],
        [kind |-> "endfor", var |-> "u_dim_0_outer", head |-> 3],
        [kind |-> "endfor", var |-> "u_dim_1_outer", head |-> 1],
        [kind |-> "if", cond |-> "stage.guard", exit |-> 10],
        [kind |-> "store", insn |-> "insn", arr |-> "result", idx |-> "stage.result",
         loads |-> << Load("u_fetch", "stage.c"), Load("u_fetch", "stage.c"),
                      Load("u_fetch", "stage.c"), Load("u_fetch", "stage.ip"),
                      Load("u_fetch", "stage.im"), Load("u_fetch", "stage.jp"),
                      Load("u_fetch", "stage.jm") >>] >> ]

\* __local float u_fetch[18 * 18]; the fetch loops; the barrier; the guarded statement
StagedKernel(N) ==
    [ wgsize |-> <<16, 16, 1>>,
      locals |-> << [name |-> "u_fetch", size |-> 18 * 18] >>,
      body |-> <<
        [kind |-> "for", var |-> "u_dim_1_outer", lo |-> 0, hi |-> 1, exit |-> 8],
        [kind |-> "if", cond |-> "stage.fetch1", exit |-> 7],
        [kind |-> "for", var |-> "u_dim_0_outer", lo |-> 0, hi |-> 1, exit |-> 7],
        [kind |-> "if", cond |-> "stage.fetch0", exit |-> 6],
        [kind |-> "store", insn |-> "u_fetch_rule", arr |-> "u_fetch",
         idx |-> "stage.u_fetch", loads |-> << Load("u", "stage.u") >>],
        [kind |-> "endfor", var |-> "u_dim_0_outer", head |-> 3],
        [kind |-> "endfor", var |-> "u_dim_1_outer", head |-> 1],
        [kind |-> "barrier", fence |-> "CLK_LOCAL_MEM_FENCE"],
        [kind |-> "if", cond |-> "stage.guard", exit |-> 11],
        [kind |-> "store", insn |-> "insn", arr |-> "result", idx |-> "stage.result",
         loads |-> << Load("u_fetch", "stage.c"), Load("u_fetch", "stage.c"),
                      Load("u_fetch", "stage.c"), Load("u_fetch", "stage.ip"),
                      Load("u_fetch", "stage.im"), Load("u_fetch", "stage.jp"),
                      Load("u_fetch", "stage.jm") >>] >> ]

\* The kernel a run printed, by name.
Code(k, N) ==
    CASE k = "seq" -> SequentialKernel(N)
      [] k = "tagged" -> TaggedKernel(N)
      [] k = "tiled" -> TiledKernel(N)
      [] k = "staged" -> StagedKernel(N)

(***************************************************************************)
(* The conditions of the generated kernels, for the unit w: w.gid and      *)
(* w.lid are get_group_id and get_local_id, w.v the loop variables.        *)
(***************************************************************************)
Cond(c, w, N) ==
    CASE c = "tile.guard" ->
           /\ -1 + -16 * w.gid[0] + -1 * w.lid[0] + N >= 0
           /\ -1 + -16 * w.gid[1] + -1 * w.lid[1] + N >= 0
      [] c = "stage.fetch1" ->
           /\ 17 + -16 * w.v["u_dim_1_outer"] + -1 * w.lid[0] >= 0
           /\ 1 + -16 * w.v["u_dim_1_outer"] + -1 * w.lid[0] + -16 * w.gid[0] + N >= 0
      [] c = "stage.fetch0" ->
           /\ 17 + -16 * w.v["u_dim_0_outer"] + -1 * w.lid[1] >= 0
           /\ 1 + -16 * w.v["u_dim_0_outer"] + -1 * w.lid[1] + -16 * w.gid[1] + N >= 0
      [] c = "stage.guard" ->
           /\ -1 + -16 * w.gid[0] + -1 * w.lid[0] + N >= 0
           /\ -1 + -16 * w.gid[1] + -1 * w.lid[1] + N >= 0

(***************************************************************************)
(* The index expressions of the generated kernels (flat offsets).          *)
(***************************************************************************)
Index(e, w, N) ==
    CASE e = "seq.result" -> (1 + N) * (w.v["i"] + 1) + w.v["j"] + 1
      [] e = "seq.c" -> (2 + N) * (w.v["i"] + 1) + w.v["j"] + 1
      [] e = "seq.ip" -> (2 + N) * (w.v["i"] + 1 + 1) + w.v["j"] + 1
      [] e = "seq.im" -> (2 + N) * (w.v["i"] + 1 + -1) + w.v["j"] + 1
      [] e = "seq.jp" -> (2 + N) * (w.v["i"] + 1) + w.v["j"] + 1 + 1
      [] e = "seq.jm" -> (2 + N) * (w.v["i"] + 1) + w.v["j"] + 1 + -1
      [] e = "tag.result" -> (1 + N) * (w.gid[0] + 1) + w.gid[1] + 1
      [] e = "tag.c" -> (2 + N) * (w.gid[0] + 1) + w.gid[1] + 1
      [] e = "tag.ip" -> (2 + N) * (w.gid[0] + 1 + 1) + w.gid[1] + 1
      [] e = "tag.im" -> (2 + N) * (w.gid[0] + 1 + -1) + w.gid[1] + 1
      [] e = "tag.jp" -> (2 + N) * (w.gid[0] + 1) + w.gid[1] + 1 + 1
      [] e = "tag.jm" -> (2 + N) * (w.gid[0] + 1) + w.gid[1] + 1 + -1
      [] e = "tile.result" ->
           (1 + N) * (1 + w.lid[1] + w.gid[1] * 16) + 1 + w.lid[0] + w.gid[0] * 16
      [] e = "tile.c" ->
           (2 + N) * (1 + w.lid[1] + w.gid[1] * 16) + 1 + w.lid[0] + w.gid[0] * 16
      [] e = "tile.ip" ->
           (2 + N) * (1 + 1 + w.lid[1] + w.gid[1] * 16) + 1 + w.lid[0] + w.gid[0] * 16
      [] e = "tile.im" ->
           (2 + N) * (1 + -1 + w.lid[1] + w.gid[1] * 16) + 1 + w.lid[0] + w.gid[0] * 16
      [] e = "tile.jp" ->
           (2 + N) * (1 + w.lid[1] + w.gid[1] * 16) + 1 + 1 + w.lid[0] + w.gid[0] * 16
      [] e = "tile.jm" ->
           (2 + N) * (1 + w.lid[1] + w.gid[1] * 16) + 1 + -1 + w.lid[0] + w.gid[0] * 16
      [] e = "stage.u_fetch" ->
           18 * (w.lid[1] + w.v["u_dim_0_outer"] * 16)
             + w.lid[0] + w.v["u_dim_1_outer"] * 16
      [] e = "stage.u" ->
           (2 + N) * (16 * w.gid[1] + w.lid[1] + w.v["u_dim_0_outer"] * 16)
             + 16 * w.gid[0] + w.lid[0] + w.v["u_dim_1_outer"] * 16
      [] e = "stage.result" ->
           (1 + N) * (1 + w.lid[1] + w.gid[1] * 16) + 1 + w.lid[0] + w.gid[0] * 16
      [] e = "stage.c" -> 18 * (1 + w.lid[1]) + 1 + w.lid[0]
      [] e = "stage.ip" -> 18 * (2 + w.lid[1]) + 1 + w.lid[0]
      [] e = "stage.im" -> 18 * w.lid[1] + 1 + w.lid[0]
      [] e = "stage.jp" -> 18 * (1 + w.lid[1]) + 2 + w.lid[0]
      [] e = "stage.jm" -> 18 * (1 + w.lid[1]) + w.lid[0]

(***************************************************************************)
(* One execution unit running a kernel body.  acc collects the stores it   *)
(* made: the array and offset written, the loads the right-hand side       *)
(* made, and the number of barriers the unit had passed (bar).             *)
(***************************************************************************)
LoopVarsOf(body) == { body[k].var : k \in { q \in DOMAIN body : body[q].kind = "for" } }

Idle == [st |-> "idle", gid |-> <<>>, lid |-> <<>>, pc |-> 0, v |-> NoVars,
         acc |-> {}, bar |-> 0]

\* The unit (g, l) at the first statement of the body.
StartUnit(body, g, l) ==
    [st |-> "run", gid |-> g, lid |-> l, pc |-> 1,
     v |-> [x \in LoopVarsOf(body) |-> 0], acc |-> {}, bar |-> 0]

\* The unit after executing the statement at w.pc.
StepUnit(body, w, N) ==
    LET s == body[w.pc] IN
    CASE s.kind = "for" ->
           IF s.lo <= s.hi
             THEN [w EXCEPT !.v[s.var] = s.lo, !.pc = w.pc + 1]
             ELSE [w EXCEPT !.pc = s.exit]
      [] s.kind = "endfor" ->
           IF w.v[s.var] + 1 <= body[s.head].hi
             THEN [w EXCEPT !.v[s.var] = w.v[s.var] + 1, !.pc = s.head + 1]
             ELSE [w EXCEPT !.pc = w.pc + 1]
      [] s.kind = "if" ->
           IF Cond(s.cond, w, N)
             THEN [w EXCEPT !.pc = w.pc + 1]
             ELSE [w EXCEPT !.pc = s.exit]
      [] s.kind = "store" ->
           [w EXCEPT !.pc = w.pc + 1,
                     !.acc = w.acc \cup
                       { [arr |-> s.arr, idx |-> Index(s.idx, w, N),
                          loads |-> { <<s.loads[k].arr, Index(s.loads[k].idx, w, N)>> :
                                      k \in DOMAIN s.loads },
                          insn |-> s.insn, bar |-> w.bar] }]
      [] s.kind = "barrier" ->
           [w EXCEPT !.pc = w.pc + 1, !.bar = w.bar + 1]

\* The group and local ids a launch may give a unit.  The size of the launch
\* grid is computed by the library and is not printed: any group id up to
\* MaxGid is allowed, inside the domain or not.
Gids == [{0, 1} -> 0..MaxGid]
Lids(kernel) ==
    { [d \in {0, 1} |-> IF d = 0 THEN a ELSE b] :
        a \in 0..(kernel.wgsize[1] - 1), b \in 0..(kernel.wgsize[2] - 1) }

(***************************************************************************)
(* Kernel descriptions, as the notebook builds and transforms them.  An    *)
(* iname carries its implementation tag, the iname of the original domain  *)
(* it indexes (of), and whether it is that iname itself or the outer or    *)
(* inner part of a split by factor.                                        *)
(***************************************************************************)
Whole(x) == [tag |-> "None", of |-> x, part |-> "whole", factor |-> 1]

\* lp.make_kernel("{[i,j]: 0<=i,j<n}", [lp.Assignment(result[ii, jj], ...)])
MakeKernel ==
    [ kind |-> "kernel",
      inames |-> [x \in {"i", "j"} |-> Whole(x)],
      insns |-> << [id |-> "insn", within |-> {"i", "j"}, deps |-> {}] >>,
      temps |-> {},
      options |-> {} ]

\* lp.set_options(knl, write_cl=True)
SetOptions(k, o) == [k EXCEPT !.options = @ \cup {o}]

\* lp.tag_inames(knl, tags)
TagInames(k, tags) ==
    [k EXCEPT !.inames = [x \in DOMAIN k.inames |->
                            IF x \in DOMAIN tags
                              THEN [k.inames[x] EXCEPT !.tag = tags[x]]
                              ELSE k.inames[x]]]

OuterName(x) == CASE x = "i" -> "i_outer" [] x = "j" -> "j_outer"
InnerName(x) == CASE x = "i" -> "i_inner" [] x = "j" -> "j_inner"

\* lp.split_iname(knl, x, f, outer_tag=otag, inner_tag=itag)
SplitIname(k, x, f, otag, itag) ==
    LET names == (DOMAIN k.inames \ {x}) \cup {OuterName(x), InnerName(x)}
        renamed(S) == IF x \in S THEN (S \ {x}) \cup {OuterName(x), InnerName(x)} ELSE S
    IN [k EXCEPT
          !.inames = [y \in names |->
                        CASE y = OuterName(x) ->
                               [tag |-> otag, of |-> x, part |-> "outer", factor |-> f]
                          [] y = InnerName(x) ->
                               [tag |-> itag, of |-> x, part |-> "inner", factor |-> f]
                          [] OTHER -> k.inames[y]],
          !.insns = [q \in DOMAIN k.insns |->
                        [k.insns[q] EXCEPT !.within = renamed(@)]]]

\* lp.add_prefetch(knl, "u", ["i_inner", "j_inner"], fetch_bounding_box=True)
AddPrefetch(k, arr, sweep) ==
    LET fetch == {"u_dim_0_outer", "u_dim_1_outer"}
        names == DOMAIN k.inames \cup fetch
        outer == { y \in DOMAIN k.inames : y \notin sweep }
    IN [k EXCEPT
          !.inames = [y \in names |-> IF y \in fetch THEN Whole(y) ELSE k.inames[y]],
          !.insns = << [id |-> "u_fetch_rule", within |-> fetch \cup outer, deps |-> {}] >>
                    \o [q \in DOMAIN k.insns |->
                          [k.insns[q] EXCEPT !.deps = @ \cup {"u_fetch_rule"}]],
          !.temps = @ \cup {"u_fetch"}]

(***************************************************************************)
(* The notebook.  pc names the statement to run next by the cell's         *)
(* execution count and the statement's position in the cell.  A run of a   *)
(* kernel prints the generated code and the warnings (Run), and then one   *)
(* execution unit of the launch is followed through the kernel (Launch,    *)
(* Step, Finish).                                                          *)
(***************************************************************************)
NoOutput == [kernel |-> "none", warnings |-> {}, from |-> Undef]

Init ==
    /\ pc = "c12"
    /\ n \in 1..MaxN
    /\ knl = Undef /\ tknl = Undef /\ sknl = Undef
    /\ out = NoOutput
    /\ unit = Idle
    /\ mem = <<>> /\ wi = <<>>

\* cell 12: knl = lp.make_kernel(...)
MakeKernelCell ==
    /\ pc = "c12"
    /\ knl' = MakeKernel
    /\ pc' = "c17.1"
    /\ UNCHANGED <<n, tknl, sknl, out, unit, mem, wi>>

\* cell 17: knl = lp.set_options(knl, write_cl=True)
SetOptionsCell ==
    /\ pc = "c17.1"
    /\ knl' = SetOptions(knl, "write_cl")
    /\ pc' = "c17.2"
    /\ UNCHANGED <<n, tknl, sknl, out, unit, mem, wi>>

\* cells 18, 19, 20: tknl = knl, sknl = knl
AssignTknl ==
    /\ pc = "c18.1"
    /\ tknl' = knl
    /\ pc' = "c18.2"
    /\ UNCHANGED <<n, knl, sknl, out, unit, mem, wi>>

AssignSknl ==
    /\ pc \in {"c19.1", "c20.1"}
    /\ sknl' = knl
    /\ pc' = IF pc = "c19.1" THEN "c19.2" ELSE "c20.2"
    /\ UNCHANGED <<n, knl, tknl, out, unit, mem, wi>>

\* cell 18: tknl = lp.tag_inames(tknl, {"i": "g.0", "j": "g.1"})
TagInamesCell ==
    /\ pc = "c18.2"
    /\ tknl' = TagInames(tknl, [i |-> "g.0", j |-> "g.1"])
    /\ pc' = "c18.3"
    /\ UNCHANGED <<n, knl, sknl, out, unit, mem, wi>>

\* cells 19, 20: sknl = lp.split_iname(sknl, "i", 16, outer_tag="g.1", inner_tag="l.1")
SplitICell ==
    /\ pc \in {"c19.2", "c20.2"}
    /\ sknl' = SplitIname(sknl, "i", TileSize, "g.1", "l.1")
    /\ pc' = IF pc = "c19.2" THEN "c19.3" ELSE "c20.3"
    /\ UNCHANGED <<n, knl, tknl, out, unit, mem, wi>>

\* cells 19, 20: sknl = lp.split_iname(sknl, "j", 16, outer_tag="g.0", inner_tag="l.0")
SplitJCell ==
    /\ pc \in {"c19.3", "c20.3"}
    /\ sknl' = SplitIname(sknl, "j", TileSize, "g.0", "l.0")
    /\ pc' = IF pc = "c19.3" THEN "c19.4" ELSE "c20.4"
    /\ UNCHANGED <<n, knl, tknl, out, unit, mem, wi>>

\* cell 20: sknl = lp.add_prefetch(sknl, "u", ["i_inner", "j_inner"], ...)
AddPrefetchCell ==
    /\ pc = "c20.4"
    /\ sknl' = AddPrefetch(sknl, "u", {"i_inner", "j_inner"})
    /\ pc' = "c20.5"
    /\ UNCHANGED <<n, knl, tknl, out, unit, mem, wi>>

\* What each run printed: the kernel on stdout and the warnings on stderr.
Printed(p) ==
    CASE p = "c17.2" -> [kernel |-> "seq", warnings |-> {"ambiguous", "no_device"}]
      [] p = "c18.3" -> [kernel |-> "tagged", warnings |-> {"no_device"}]
      [] p = "c19.4" -> [kernel |-> "tiled", warnings |-> {"no_device"}]
      [] p = "c20.5" -> [kernel |-> "staged", warnings |-> {"ambiguous", "no_device"}]

RunPcs == {"c17.2", "c18.3", "c19.4", "c20.5"}

\* The description a run statement calls.
Called(p) == CASE p = "c17.2" -> knl [] p = "c18.3" -> tknl [] OTHER -> sknl

ExecPc(p) ==
    CASE p = "c17.2" -> "c17.exec" [] p = "c18.3" -> "c18.exec"
      [] p = "c19.4" -> "c19.exec" [] p = "c20.5" -> "c20.exec"

AfterExec(p) ==
    CASE p = "c17.exec" -> "c18.1" [] p = "c18.exec" -> "c19.1"
      [] p = "c19.exec" -> "c20.1" [] p = "c20.exec" -> "end"

ExecPcs == {"c17.exec", "c18.exec", "c19.exec", "c20.exec"}

\* evt, (result,) = knl(queue, u=u, n=n): the code is generated and printed
Run ==
    /\ pc \in RunPcs
    /\ out' = [kernel |-> Printed(pc).kernel, warnings |-> Printed(pc).warnings,
               from |-> Called(pc)]
    /\ pc' = ExecPc(pc)
    /\ UNCHANGED <<n, knl, tknl, sknl, unit, mem, wi>>

\* the launch starts an execution unit
Launch ==
    /\ pc \in ExecPcs
    /\ unit.st = "idle"
    /\ \E g \in Gids, l \in Lids(Code(out.kernel, n)) :
         unit' = StartUnit(Code(out.kernel, n).body, g, l)
    /\ UNCHANGED <<pc, n, knl, tknl, sknl, out, mem, wi>>

\* the unit executes one statement
Step ==
    /\ unit.st = "run"
    /\ unit.pc <= Len(Code(out.kernel, n).body)
    /\ unit' = StepUnit(Code(out.kernel, n).body, unit, n)
    /\ UNCHANGED <<pc, n, knl, tknl, sknl, out, mem, wi>>

\* the unit reaches the end of the kernel
Return ==
    /\ unit.st = "run"
    /\ unit.pc > Len(Code(out.kernel, n).body)
    /\ unit' = [unit EXCEPT !.st = "done"]
    /\ UNCHANGED <<pc, n, knl, tknl, sknl, out, mem, wi>>

\* the run statement returns and the next cell is executed
Finish ==
    /\ pc \in ExecPcs
    /\ unit.st = "done"
    /\ unit' = Idle
    /\ pc' = AfterExec(pc)
    /\ UNCHANGED <<n, knl, tknl, sknl, out, mem, wi>>

Next ==
    \/ MakeKernelCell
    \/ SetOptionsCell
    \/ AssignTknl
    \/ AssignSknl
    \/ TagInamesCell
    \/ SplitICell
    \/ SplitJCell
    \/ AddPrefetchCell
    \/ Run
    \/ Launch
    \/ Step
    \/ Return
    \/ Finish

Spec == Init /\ [][Next]_vars

(***************************************************************************)
(* The original loop nest, from the kernel description: the domain of      *)
(* make_kernel, and the statement instance (i, j) with the offsets the     *)
(* array strides give (result has row stride 1 + n, u has 2 + n).          *)
(***************************************************************************)
InDomain(i, j, N) == 0 <= i /\ i < N /\ 0 <= j /\ j < N

InsnTarget(N, i, j) == <<"result", (1 + N) * (i + 1) + (j + 1)>>

InsnLoads(N, i, j) ==
    { <<"u", (2 + N) * (i + 1 + d[1]) + (j + 1 + d[2])>> :
        d \in {<<0, 0>>, <<1, 0>>, <<-1, 0>>, <<0, 1>>, <<0, -1>>} }

(***************************************************************************)
(* Shapes of a kernel body.                                                *)
(***************************************************************************)
Stmts(body, kind) == { k \in DOMAIN body : body[k].kind = kind }

\* statement k lies inside a guard
Guarded(body, k) == \E q \in Stmts(body, "if") : q < k /\ k < body[q].exit

\* statement k lies inside a loop
InLoop(body, k) == \E q \in Stmts(body, "for") : q < k /\ k < body[q].exit

Writes(w) == { <<e.arr, e.idx>> : e \in w.acc }

Generated == Code(out.kernel, n)

(***************************************************************************)
(* C4, as stated: the kernel generated for the description tagged          *)
(* i -> g.0, j -> g.1 has no loop, stores at the group coordinates, wraps  *)
(* the store in a guard, and a unit whose group coordinates lie outside    *)
(* 0 <= i, j < n writes nothing.  The generated kernel has no guard, so    *)
(* this fails.                                                             *)
(***************************************************************************)
C4_GuardedAsStated ==
    out.kernel = "tagged" =>
      /\ Stmts(Generated.body, "for") = {}
      /\ \A k \in Stmts(Generated.body, "store") : Guarded(Generated.body, k)
      /\ unit.st = "done" =>
           Writes(unit) = IF InDomain(unit.gid[0], unit.gid[1], n)
                            THEN {InsnTarget(n, unit.gid[0], unit.gid[1])}
                            ELSE {}

(***************************************************************************)
(* C4, amended: the kernel generated for the tagged description has no     *)
(* loop and no guard; every unit that runs it makes exactly one store, the *)
(* statement instance (i, j) = (gid(0), gid(1)) of the original nest:      *)
(* it writes result[gid(0) + 1, gid(1) + 1] and loads the five stencil     *)
(* points of u around it.                                                  *)
(***************************************************************************)
C4_TaggedUnguarded ==
    out.kernel = "tagged" =>
      /\ out.from.inames["i"].tag = "g.0" /\ out.from.inames["j"].tag = "g.1"
      /\ Stmts(Generated.body, "for") = {}
      /\ Stmts(Generated.body, "if") = {}
      /\ unit.st = "done" =>
           /\ Writes(unit) = {InsnTarget(n, unit.gid[0], unit.gid[1])}
           /\ \A e \in unit.acc : e.loads = InsnLoads(n, unit.gid[0], unit.gid[1])

C4_Witness ==
    /\ out.kernel = "tagged"
    /\ unit.st = "done"
    /\ InDomain(unit.gid[0], unit.gid[1], n)
    /\ unit.gid[0] # unit.gid[1]
    /\ Cardinality(unit.acc) = 1

(***************************************************************************)
(* C5: the kernel generated for the description split by the tile size on  *)
(* both inames and given a prefetch of u declares one local buffer of      *)
(* (tile + 2)^2 elements; its body has exactly one barrier, outside every  *)
(* loop and guard; every store before the barrier is guarded, writes the   *)
(* staging buffer and loads u; every store after it loads the staging      *)
(* buffer only.  Every unit therefore stores only to u_fetch before it     *)
(* passes the barrier, passes it exactly once, and afterwards stores only  *)
(* to result from loads of u_fetch, all inside the declared buffer.        *)
(***************************************************************************)
C5_StagedPhases ==
    out.kernel = "staged" =>
      LET body == Generated.body
          tile == out.from.inames["i_inner"].factor
          size == (tile + 2) * (tile + 2)
          bars == Stmts(body, "barrier")
      IN /\ out.from.inames["j_inner"].factor = tile
         /\ "u_fetch" \in out.from.temps
         /\ Generated.locals = << [name |-> "u_fetch", size |-> size] >>
         /\ Cardinality(bars) = 1
         /\ \A b \in bars : ~Guarded(body, b) /\ ~InLoop(body, b)
         /\ \A k \in Stmts(body, "store"), b \in bars :
              IF k < b
                THEN /\ Guarded(body, k)
                     /\ body[k].arr = "u_fetch"
                     /\ \A q \in DOMAIN body[k].loads : body[k].loads[q].arr = "u"
                ELSE /\ body[k].arr = "result"
                     /\ \A q \in DOMAIN body[k].loads : body[k].loads[q].arr = "u_fetch"
         /\ unit.bar <= 1
         /\ unit.st = "done" => unit.bar = 1
         /\ \A e \in unit.acc :
              /\ e.bar = 0 => e.arr = "u_fetch" /\ e.idx \in 0..(size - 1)
              /\ e.bar = 1 =>
                   /\ e.arr = "result"
                   /\ \A ld \in e.loads : ld[1] = "u_fetch" /\ ld[2] \in 0..(size - 1)

C5_Witness ==
    /\ out.kernel = "staged"
    /\ unit.st = "done"
    /\ \E e \in unit.acc : e.bar = 0
    /\ \E e \in unit.acc : e.bar = 1

(***************************************************************************)
(* The iteration domain of a description, one original iname at a time     *)
(* (the domain {[i,j]: 0<=i,j<n} is a box).  A whole iname x ranges over   *)
(* 0 <= x < n.  A split iname is the pair (outer, inner) with              *)
(* 0 <= inner < factor, outer >= 0 and the bound the generated kernels     *)
(* test, -1 + -factor*outer + -1*inner + n >= 0; it stands for the value   *)
(* outer*factor + inner.                                                   *)
(***************************************************************************)
\* A split that re-expressed the bound i < n as i <= n.
SplitBoundOffByOne(N, f, o, r) == -f * o + -1 * r + N >= 0

SplitBound(N, f, o, r) == -1 + -f * o + -1 * r + N >= 0

IsSplit(d, x) == x \notin DOMAIN d.inames

FactorOf(d, x) == d.inames[InnerName(x)].factor

\* outer need not exceed N: factor >= 1 and the bound give outer <= N - 1
Points(d, x, N) ==
    IF IsSplit(d, x)
      THEN { p \in { [y \in {OuterName(x), InnerName(x)} |->
                        IF y = OuterName(x) THEN o ELSE r] :
                      o \in 0..N, r \in 0..(FactorOf(d, x) - 1) } :
               SplitBound(N, FactorOf(d, x), p[OuterName(x)], p[InnerName(x)]) }
      ELSE { p \in [{x} -> 0..N] : p[x] < N }

\* the value of the original iname x at the point p
ValueAt(d, x, p) ==
    IF IsSplit(d, x)
      THEN p[OuterName(x)] * FactorOf(d, x) + p[InnerName(x)]
      ELSE p[x]

(***************************************************************************)
(* split_iname as a function of its arguments: from the description of     *)
(* make_kernel, either iname is split by any of the factors.               *)
(***************************************************************************)
Factors == (1..MaxFactor) \cup {TileSize}

InitSplit ==
    /\ pc = "split"
    /\ n \in 0..MaxN
    /\ knl = MakeKernel
    /\ sknl = MakeKernel
    /\ tknl = Undef
    /\ out = NoOutput
    /\ unit = Idle
    /\ mem = <<>> /\ wi = <<>>

SplitAny ==
    /\ pc = "split"
    /\ \E x \in {"i", "j"}, f \in Factors :
         /\ ~IsSplit(sknl, x)
         /\ sknl' = SplitIname(sknl, x, f, "None", "None")
    /\ UNCHANGED <<pc, n, knl, tknl, out, unit, mem, wi>>

NextSplit == SplitAny

SpecSplit == InitSplit /\ [][NextSplit]_vars

(***************************************************************************)
(* C3: after an iname of the domain 0 <= i, j < n is split by a factor     *)
(* > 0, every point of the split domain has 0 <= inner < factor, and       *)
(* outer*factor + inner maps the split domain one-to-one onto the values   *)
(* the iname had before the split: none lost, none added, one preimage     *)
(* each.                                                                   *)
(***************************************************************************)
C3_SplitRoundTrip ==
    \A x \in {"i", "j"} :
      IsSplit(sknl, x) =>
        LET f == FactorOf(sknl, x)
            P == Points(sknl, x, n)
            D == { ValueAt(knl, x, p) : p \in Points(knl, x, n) }
        IN /\ f > 0
           /\ \A p \in P : 0 <= p[InnerName(x)] /\ p[InnerName(x)] < f
           /\ { ValueAt(sknl, x, p) : p \in P } = D
           /\ \A p, q \in P : ValueAt(sknl, x, p) = ValueAt(sknl, x, q) => p = q

\* a split whose factor does not divide n and leaves a partial last tile
C3_Witness ==
    /\ pc = "split"
    /\ IsSplit(sknl, "i")
    /\ n > FactorOf(sknl, "i")
    /\ n % FactorOf(sknl, "i") # 0
    /\ Cardinality(Points(sknl, "i", n)) = n

(***************************************************************************)
(* The sum_vector kernel of the PyOpenCL notebook:                         *)
(*     int gid = get_global_id(0);                                         *)
(*     c[gid] = a[gid] + b[gid];                                           *)
(* launched with global size (n,) over buffers of length n.  Work item k   *)
(* holds its registers gid, ra and rb; wrote is the set of buffer elements *)
(* it has stored to.  The work items run in any interleaving.  c comes     *)
(* from empty_like and starts uninitialised (Uninit); the float addition   *)
(* is modelled on integers.                                                *)
(***************************************************************************)
Uninit == -1

Items == 0..(n - 1)

InitSum ==
    /\ pc = "sum"
    /\ n \in 1..MaxSumN
    /\ mem \in { [a |-> x, b |-> y, c |-> [k \in 0..(n - 1) |-> Uninit]] :
                   x \in [0..(n - 1) -> 0..MaxVal], y \in [0..(n - 1) -> 0..MaxVal] }
    /\ wi = [k \in 0..(n - 1) |-> [pc |-> "entry", gid |-> 0, ra |-> 0, rb |-> 0,
                                   wrote |-> {}]]
    /\ knl = Undef /\ tknl = Undef /\ sknl = Undef
    /\ out = NoOutput
    /\ unit = Idle

\* get_global_id(0) of work item k
GlobalId(k) == k

\* A kernel that stores every sum to the first element.
StoreIndexFirst(w) == 0

\* the element of c the statement stores to
StoreIndex(w) == w.gid

\* int gid = get_global_id(0);
GetGlobalId(k) ==
    /\ wi[k].pc = "entry"
    /\ wi' = [wi EXCEPT ![k].gid = GlobalId(k), ![k].pc = "load_a"]
    /\ UNCHANGED <<pc, n, knl, tknl, sknl, out, unit, mem>>

\* a[gid]
LoadA(k) ==
    /\ wi[k].pc = "load_a"
    /\ wi' = [wi EXCEPT ![k].ra = mem.a[wi[k].gid], ![k].pc = "load_b"]
    /\ UNCHANGED <<pc, n, knl, tknl, sknl, out, unit, mem>>

\* b[gid]
LoadB(k) ==
    /\ wi[k].pc = "load_b"
    /\ wi' = [wi EXCEPT ![k].rb = mem.b[wi[k].gid], ![k].pc = "store"]
    /\ UNCHANGED <<pc, n, knl, tknl, sknl, out, unit, mem>>

\* c[gid] = a[gid] + b[gid];
StoreC(k) ==
    /\ wi[k].pc = "store"
    /\ mem' = [mem EXCEPT !.c[StoreIndex(wi[k])] = wi[k].ra + wi[k].rb]
    /\ wi' = [wi EXCEPT ![k].wrote = @ \cup {<<"c", StoreIndex(wi[k])>>},
                        ![k].pc = "done"]
    /\ UNCHANGED <<pc, n, knl, tknl, sknl, out, unit>>

NextSum ==
    \/ \E k \in Items : GetGlobalId(k)
    \/ \E k \in Items : LoadA(k)
    \/ \E k \in Items : LoadB(k)
    \/ \E k \in Items : StoreC(k)

SpecSum == InitSum /\ [][NextSum]_vars

SumDone == \A k \in Items : wi[k].pc = "done"

(***************************************************************************)
(* C10: in every interleaving of the n work items of sum_vector, a work    *)
(* item stores to c[gid] of its own gid and to nothing else (never to a    *)
(* or b), no two work items store to the same element, and when all have   *)
(* finished c[k] = a[k] + b[k] for every k in 0..n-1.                      *)
(***************************************************************************)
C10_SumVector ==
    /\ \A k \in Items :
         /\ wi[k].wrote \subseteq {<<"c", k>>}
         /\ wi[k].pc = "done" => wi[k].wrote = {<<"c", k>>}
    /\ \A k, j \in Items : k # j => wi[k].wrote \cap wi[j].wrote = {}
    /\ SumDone => \A k \in Items : mem.c[k] = mem.a[k] + mem.b[k]

C10_Witness ==
    /\ pc = "sum"
    /\ SumDone
    /\ n >= 2
    /\ mem.c[0] # mem.c[1]
    /\ mem.a[0] # mem.a[1]

(***************************************************************************)
(* A whole launch of the tiled kernel (cell 19).  The launch has           *)
(* MaxGid + 1 groups in each dimension, each of 16 x 16 work items; wi     *)
(* counts the work items started so far, in the order of their linear id   *)
(* (lid(0) fastest, then lid(1), gid(0), gid(1)).  The kernel has no       *)
(* barrier and reads only u, which nothing writes, so a work item's        *)
(* stores do not depend on the others; mem collects every store to result  *)
(* with the work item that made it.                                        *)
(***************************************************************************)
\* sknl after the statements of cell 19
TiledDescription ==
    SplitIname(SplitIname(SetOptions(MakeKernel, "write_cl"),
                          "i", TileSize, "g.1", "l.1"),
               "j", TileSize, "g.0", "l.0")

GroupsPerDim == MaxGid + 1

GroupSize(kernel) == kernel.wgsize[1] * kernel.wgsize[2]

LaunchSize(kernel) == GroupsPerDim * GroupsPerDim * GroupSize(kernel)

\* the group and local id of the work item with linear id k
UnitGid(kernel, k) ==
    [d \in {0, 1} |-> IF d = 0 THEN (k \div GroupSize(kernel)) % GroupsPerDim
                               ELSE k \div (GroupSize(kernel) * GroupsPerDim)]

UnitLid(kernel, k) ==
    [d \in {0, 1} |-> IF d = 0 THEN k % kernel.wgsize[1]
                               ELSE (k \div kernel.wgsize[1]) % kernel.wgsize[2]]

\* the stores of w, with the work item that made them
StoresOf(w) == { [arr |-> e.arr, idx |-> e.idx, gid |-> w.gid, lid |-> w.lid] : e \in w.acc }

InitTiled ==
    /\ pc = "tiled"
    /\ n \in 1..MaxN
    /\ knl = SetOptions(MakeKernel, "write_cl")
    /\ tknl = Undef
    /\ sknl = TiledDescription
    /\ out = [kernel |-> Printed("c19.4").kernel, warnings |-> Printed("c19.4").warnings,
              from |-> TiledDescription]
    /\ unit = Idle
    /\ mem = {}
    /\ wi = 0

\* the next work item of the launch starts
TiledStart ==
    /\ pc = "tiled"
    /\ unit.st = "idle"
    /\ wi < LaunchSize(Code(out.kernel, n))
    /\ unit' = StartUnit(Code(out.kernel, n).body,
                         UnitGid(Code(out.kernel, n), wi), UnitLid(Code(out.kernel, n), wi))
    /\ wi' = wi + 1
    /\ UNCHANGED <<pc, n, knl, tknl, sknl, out, mem>>

\* the work item executes one statement; a store reaches the memory
TiledStep ==
    /\ pc = "tiled"
    /\ unit.st = "run"
    /\ unit.pc <= Len(Code(out.kernel, n).body)
    /\ unit' = StepUnit(Code(out.kernel, n).body, unit, n)
    /\ mem' = mem \cup StoresOf(unit')
    /\ UNCHANGED <<pc, n, knl, tknl, sknl, out, wi>>

\* the work item reaches the end of the kernel
TiledReturn ==
    /\ pc = "tiled"
    /\ unit.st = "run"
    /\ unit.pc > Len(Code(out.kernel, n).body)
    /\ unit' = [unit EXCEPT !.st = "done"]
    /\ UNCHANGED <<pc, n, knl, tknl, sknl, out, mem, wi>>

\* the work item retires
TiledRetire ==
    /\ pc = "tiled"
    /\ unit.st = "done"
    /\ unit' = Idle
    /\ UNCHANGED <<pc, n, knl, tknl, sknl, out, mem, wi>>

NextTiled ==
    \/ TiledStart
    \/ TiledStep
    \/ TiledReturn
    \/ TiledRetire

SpecTiled == InitTiled /\ [][NextTiled]_vars

\* the launch is over
TiledDone == wi = LaunchSize(Code(out.kernel, n)) /\ unit.st = "idle"

\* the dimension of a tag g.d or l.d
TagDim(tag) == CASE tag \in {"g.0", "l.0"} -> 0 [] tag \in {"g.1", "l.1"} -> 1

\* the value of the original iname x at the work item (g, l), by the tags
\* the description gives the outer and the inner part of x
InameAt(d, x, g, l) ==
    g[TagDim(d.inames[OuterName(x)].tag)] * FactorOf(d, x)
      + l[TagDim(d.inames[InnerName(x)].tag)]

(***************************************************************************)
(* C13: in a launch of the kernel generated for the description with both  *)
(* inames split by 16 (i: outer g.1, inner l.1; j: outer g.0, inner l.0),  *)
(* for every n >= 1: a work item stores only to result, at the instance    *)
(* (i, j) = (16*gid(1) + lid(1), 16*gid(0) + lid(0)) of the original       *)
(* statement, and only if that point lies in 0 <= i, j < n; a finished     *)
(* work item whose point lies in the domain has made exactly that store,   *)
(* one whose i or j is >= n has made none; no element of result is stored  *)
(* to by two work items; and when the launch is over the elements written  *)
(* are exactly those of the original domain.                               *)
(***************************************************************************)
C13_TiledWriteSet ==
    pc = "tiled" =>
      LET d == out.from
          i(e) == InameAt(d, "i", e.gid, e.lid)
          j(e) == InameAt(d, "j", e.gid, e.lid)
      IN /\ out.kernel = "tiled"
         /\ FactorOf(d, "i") = 16 /\ FactorOf(d, "j") = 16
         /\ d.inames["i_outer"].tag = "g.1" /\ d.inames["i_inner"].tag = "l.1"
         /\ d.inames["j_outer"].tag = "g.0" /\ d.inames["j_inner"].tag = "l.0"
         /\ \A e \in mem :
              /\ i(e) = 16 * e.gid[1] + e.lid[1]
              /\ j(e) = 16 * e.gid[0] + e.lid[0]
              /\ InDomain(i(e), j(e), n)
              /\ <<e.arr, e.idx>> = InsnTarget(n, i(e), j(e))
         /\ Cardinality({ e.idx : e \in mem }) = Cardinality(mem)
         /\ unit.st = "done" =>
              StoresOf(unit) =
                IF InDomain(i(unit), j(unit), n)
                  THEN { [arr |-> "result", idx |-> InsnTarget(n, i(unit), j(unit))[2],
                          gid |-> unit.gid, lid |-> unit.lid] }
                  ELSE {}
         /\ TiledDone =>
              { <<e.arr, e.idx>> : e \in mem } =
                { InsnTarget(n, a, b) : a \in 0..(n - 1), b \in 0..(n - 1) }

\* a whole launch for an n that leaves a partial last tile in both dimensions
C13_Witness ==
    /\ pc = "tiled"
    /\ TiledDone
    /\ n > TileSize /\ n % TileSize # 0
    /\ Cardinality(mem) = n * n
    /\ \E e \in mem : e.gid[0] = 1 /\ e.gid[1] = 1

(***************************************************************************)
(* One work group of the staged kernel (cell 20).  u_fetch is __local:     *)
(* the 16 x 16 work items of a group share it.  Two work items of the      *)
(* group (wi[1], wi[2]) are followed statement by statement in every       *)
(* interleaving; the other 254 (the rest) make their stores of the fetch   *)
(* phase in one step and those of the compute phase in another, at any     *)
(* moment the barrier allows.  barrier(CLK_LOCAL_MEM_FENCE) lets a work    *)
(* item continue only when every work item of the group has reached it.    *)
(* mem is the access history of u_fetch: written holds every store (the    *)
(* element, the work item, the barriers it had passed), missed every load  *)
(* of an element that nothing had stored to when it was read.              *)
(***************************************************************************)
\* sknl after the statements of cell 20
StagedDescription == AddPrefetch(TiledDescription, "u", {"i_inner", "j_inner"})

\* the values of n a group is run with: a single point, one row short of a
\* tile, a full tile, and MaxN
StagedExtents == {1, TileSize - 1, TileSize, MaxN}

\* the local ids of the two work items that are followed: each coordinate
\* is one of the first MaxLid + 1 or the last of the group
FollowedLids(kernel) ==
    { l \in Lids(kernel) :
        \A d \in {0, 1} : l[d] <= MaxLid \/ l[d] = kernel.wgsize[d + 1] - 1 }

LinearLid(kernel, l) == l[0] + kernel.wgsize[1] * l[1]

RECURSIVE RunUnit(_, _, _)
\* the unit w at the end of the kernel
RunUnit(body, w, N) ==
    IF w.pc > Len(body) THEN w ELSE RunUnit(body, StepUnit(body, w, N), N)

\* the stores to the local buffer among the events acc of work item l
LocalStores(acc, l) ==
    { [idx |-> e.idx, lid |-> l, bar |-> e.bar] : e \in { x \in acc : x.arr = "u_fetch" } }

\* the loads from the local buffer among the events acc of work item l
LocalLoads(acc, l) ==
    UNION { { [idx |-> ld[2], lid |-> l, bar |-> e.bar] :
                ld \in { x \in e.loads : x[1] = "u_fetch" } } : e \in acc }

\* the events of work item (g, l) run through the staged kernel
UnitRun(N, g, l) ==
    RunUnit(Code("staged", N).body, StartUnit(Code("staged", N).body, g, l), N).acc

\* the accesses to the local buffer by every work item of every group
GroupAccess ==
    UNION { { [n |-> N, gid |-> g,
               stores |-> UNION { LocalStores(UnitRun(N, g, l), l) :
                                    l \in Lids(Code("staged", N)) },
               loads |-> UNION { LocalLoads(UnitRun(N, g, l), l) :
                                   l \in Lids(Code("staged", N)) }] :
                g \in Gids } : N \in StagedExtents }

\* the loads among lds of elements that no store of written has reached
Missed(lds, written) ==
    LET reached == { e.idx : e \in written } IN { r \in lds : r.idx \notin reached }

InitStaged ==
    /\ pc = "staged"
    /\ n \in StagedExtents
    /\ knl = SetOptions(MakeKernel, "write_cl")
    /\ tknl = Undef
    /\ sknl = StagedDescription
    /\ out = [kernel |-> Printed("c20.5").kernel, warnings |-> Printed("c20.5").warnings,
              from |-> StagedDescription]
    /\ unit = Idle
    /\ mem = [written |-> {}, missed |-> {}, rest |-> "fetch"]
    /\ \E g \in Gids, a \in FollowedLids(Code("staged", n)),
          b \in FollowedLids(Code("staged", n)) :
         /\ LinearLid(Code("staged", n), a) < LinearLid(Code("staged", n), b)
         /\ wi = << StartUnit(Code("staged", n).body, g, a),
                    StartUnit(Code("staged", n).body, g, b) >>

\* work item w stands at a barrier
AtBarrier(w) ==
    /\ w.st = "run"
    /\ w.pc <= Len(Code(out.kernel, n).body)
    /\ Code(out.kernel, n).body[w.pc].kind = "barrier"

\* every followed work item has reached the barrier number b + 1
AllArrived(b) == \A t \in DOMAIN wi : wi[t].bar > b \/ (wi[t].bar = b /\ AtBarrier(wi[t]))

\* followed work item t executes one statement
StagedStep(t) ==
    /\ pc = "staged"
    /\ wi[t].st = "run"
    /\ wi[t].pc <= Len(Code(out.kernel, n).body)
    /\ AtBarrier(wi[t]) => AllArrived(wi[t].bar) /\ mem.rest # "fetch"
    /\ LET w == StepUnit(Code(out.kernel, n).body, wi[t], n)
           new == w.acc \ wi[t].acc
       IN /\ wi' = [wi EXCEPT ![t] = w]
          /\ mem' = [mem EXCEPT
                       !.missed = @ \cup Missed(LocalLoads(new, w.lid), mem.written),
                       !.written = @ \cup LocalStores(new, w.lid)]
    /\ UNCHANGED <<pc, n, knl, tknl, sknl, out, unit>>

\* followed work item t reaches the end of the kernel
StagedReturn(t) ==
    /\ pc = "staged"
    /\ wi[t].st = "run"
    /\ wi[t].pc > Len(Code(out.kernel, n).body)
    /\ wi' = [wi EXCEPT ![t].st = "done"]
    /\ UNCHANGED <<pc, n, knl, tknl, sknl, out, unit, mem>>

\* the accesses of the other work items of the group before (b = 0) and
\* after (b = 1) the barrier
RestAccess(b) ==
    LET group == CHOOSE r \in GroupAccess : r.n = n /\ r.gid = wi[1].gid
        other(e) == e.bar = b /\ \A t \in DOMAIN wi : e.lid # wi[t].lid
    IN [stores |-> { e \in group.stores : other(e) },
        loads |-> { e \in group.loads : other(e) }]

\* the other work items execute up to the barrier
RestFetch ==
    /\ pc = "staged"
    /\ mem.rest = "fetch"
    /\ mem' = [mem EXCEPT
                 !.missed = @ \cup Missed(RestAccess(0).loads, mem.written),
                 !.written = @ \cup RestAccess(0).stores,
                 !.rest = "arrived"]
    /\ UNCHANGED <<pc, n, knl, tknl, sknl, out, unit, wi>>

\* the other work items pass the barrier and execute to the end
RestCompute ==
    /\ pc = "staged"
    /\ mem.rest = "arrived"
    /\ AllArrived(0)
    /\ mem' = [mem EXCEPT
                 !.missed = @ \cup Missed(RestAccess(1).loads, mem.written),
                 !.written = @ \cup RestAccess(1).stores,
                 !.rest = "done"]
    /\ UNCHANGED <<pc, n, knl, tknl, sknl, out, unit, wi>>

NextStaged ==
    \/ \E t \in {1, 2} : StagedStep(t)
    \/ \E t \in {1, 2} : StagedReturn(t)
    \/ RestFetch
    \/ RestCompute

SpecStaged == InitStaged /\ [][NextStaged]_vars

\* every work item of the group has finished
StagedDone == mem.rest = "done" /\ \A t \in DOMAIN wi : wi[t].st = "done"

\* the loads from the local buffer that followed work item w has made
LoadsOf(w) == LocalLoads(w.acc, w.lid)

(***************************************************************************)
(* C12: in a group of the staged kernel (16 x 16 work items, u_fetch of    *)
(* 18 x 18 elements), in every interleaving: no load of u_fetch finds an   *)
(* element that has not been stored to (missed stays empty); every load    *)
(* is made by a work item that has passed the barrier and the compute      *)
(* guard, and the element it reads was stored by a work item of the group  *)
(* that had not yet passed the barrier; no store to u_fetch is made after  *)
(* the barrier; no element of u_fetch is stored to by two work items; and  *)
(* a work item is past the barrier only when every work item of the group  *)
(* has made its stores of the fetch phase.                                 *)
(***************************************************************************)
C12_StagedGroup ==
    pc = "staged" =>
      LET kernel == Code(out.kernel, n) IN
      /\ kernel.wgsize = <<16, 16, 1>>
      /\ kernel.locals = << [name |-> "u_fetch", size |-> 18 * 18] >>
      /\ mem.missed = {}
      /\ \A e \in mem.written : e.bar = 0 /\ e.idx \in 0..(18 * 18 - 1)
      /\ Cardinality({ e.idx : e \in mem.written })
           = Cardinality({ <<e.idx, e.lid>> : e \in mem.written })
      /\ \A t \in DOMAIN wi :
           /\ \A r \in LoadsOf(wi[t]) :
                /\ r.bar = 1
                /\ Cond("stage.guard", wi[t], n)
                /\ \E e \in mem.written : e.idx = r.idx /\ e.bar = 0
           /\ wi[t].bar = 1 =>
                /\ mem.rest # "fetch"
                /\ \A u \in DOMAIN wi :
                     LocalStores(wi[u].acc, wi[u].lid) =
                       LocalStores(UnitRun(n, wi[u].gid, wi[u].lid), wi[u].lid)

\* a whole group has finished; a followed work item of a partial tile read
\* an element the other followed work item stored and an element one of the
\* other work items stored
C12_Witness ==
    /\ pc = "staged"
    /\ StagedDone
    /\ n > TileSize
    /\ \E t, u \in DOMAIN wi :
         /\ t # u
         /\ \E r \in LoadsOf(wi[t]), e \in mem.written : e.idx = r.idx /\ e.lid = wi[u].lid
         /\ \E r \in LoadsOf(wi[t]), e \in mem.written :
              e.idx = r.idx /\ \A v \in DOMAIN wi : e.lid # wi[v].lid
====
